---- MODULE Spec2Model ----
(***************************************************************************)
(* Resume-Parser (src/app.py): the field extractor extract_details, the    *)
(* scorer calculate_resume_score and the comparator compare_resumes.       *)
(*                                                                         *)
(* Texts are TLA+ strings, handled character by character with Len,        *)
(* SubSeq and \o.  The module is ASCII: the character "*" stands for       *)
(* U+2022 BULLET wherever the source writes it.  Scores are kept in tenths *)
(* of a point (the source rounds to one decimal place).                    *)
(***************************************************************************)
EXTENDS Integers, Sequences, FiniteSets, TLC

(***************************************************************************)
(* Characters and the Python string methods the source calls.              *)
(***************************************************************************)
Char(s, i) == SubSeq(s, i, i)

Rest(s, i) == SubSeq(s, i, Len(s))

LowerLetters == "abcdefghijklmnopqrstuvwxyz"

UpperLetters == "ABCDEFGHIJKLMNOPQRSTUVWXYZ"

DigitChars == "0123456789"

CharSet(s) == {Char(s, i) : i \in 1..Len(s)}

LowerSet == CharSet(LowerLetters)

UpperSet == CharSet(UpperLetters)

DigitSet == CharSet(DigitChars)

IsLowerChar(c) == c \in LowerSet

IsUpperChar(c) == c \in UpperSet

IsCasedChar(c) == IsLowerChar(c) \/ IsUpperChar(c)

IsDigitChar(c) == c \in DigitSet

\* str.isspace() for one character: the whitespace of the modelled alphabet
IsSpaceChar(c) == c \in {" ", "\t", "\n"}

\* the regex class \w
IsWordChar(c) == IsCasedChar(c) \/ IsDigitChar(c) \/ c = "_"

\* code-point order of the modelled alphabet ("*", the bullet, is last)
CodePointOrder ==
    "\t\n &+,-.0123456789:;@" \o UpperLetters \o "_" \o LowerLetters \o "*"

OrdOf ==
    [c \in CharSet(CodePointOrder) |->
        CHOOSE i \in 1..Len(CodePointOrder) : Char(CodePointOrder, i) = c]

Ord(c) == OrdOf[c]

UpperOf ==
    [c \in LowerSet |->
        Char(UpperLetters, CHOOSE i \in 1..Len(LowerLetters) : Char(LowerLetters, i) = c)]

UpperChar(c) == IF IsLowerChar(c) THEN UpperOf[c] ELSE c

RECURSIVE UpperFrom(_, _)
UpperFrom(s, i) ==
    IF i > Len(s) THEN "" ELSE UpperChar(Char(s, i)) \o UpperFrom(s, i + 1)

\* str.upper()
Upper(s) == UpperFrom(s, 1)

\* str.strip()
Strip(s) ==
    LET keep == {i \in 1..Len(s) : ~IsSpaceChar(Char(s, i))}
    IN  IF keep = {} THEN ""
        ELSE SubSeq(s, CHOOSE i \in keep : \A j \in keep : i <= j,
                       CHOOSE i \in keep : \A j \in keep : i >= j)

\* the operator `sub in s'
Contains(sub, s) ==
    \/ sub = ""
    \/ \E i \in 1..(Len(s) - Len(sub) + 1) :
          /\ Char(s, i) = Char(sub, 1)
          /\ SubSeq(s, i, i + Len(sub) - 1) = sub

RECURSIVE Remove(_, _)
\* s.replace(c, '') for a one-character c
Remove(s, c) ==
    IF s = "" THEN ""
    ELSE (IF Char(s, 1) = c THEN "" ELSE Char(s, 1)) \o Remove(Rest(s, 2), c)

RECURSIVE Split(_, _)
\* s.split(sep) for a one-character sep: empty pieces are kept
Split(s, sep) ==
    LET at == {i \in 1..Len(s) : Char(s, i) = sep}
    IN  IF at = {} THEN <<s>>
        ELSE LET p == CHOOSE i \in at : \A j \in at : i <= j
             IN  <<SubSeq(s, 1, p - 1)>> \o Split(Rest(s, p + 1), sep)

\* str.splitlines(): no line for the empty text, none after a final newline
SplitLines(s) ==
    IF s = "" THEN <<>>
    ELSE LET parts == Split(s, "\n")
         IN  IF parts[Len(parts)] = "" THEN SubSeq(parts, 1, Len(parts) - 1)
             ELSE parts

RECURSIVE Words(_)
\* str.split() without argument: the maximal runs of non-whitespace
Words(s) ==
    LET t == Strip(s)
        ws == {i \in 1..Len(t) : IsSpaceChar(Char(t, i))}
    IN  IF t = "" THEN <<>>
        ELSE IF ws = {} THEN <<t>>
        ELSE LET p == CHOOSE i \in ws : \A j \in ws : i <= j
             IN  <<SubSeq(t, 1, p - 1)>> \o Words(Rest(t, p + 1))

RECURSIVE Join(_, _)
\* sep.join(seq)
Join(seq, sep) ==
    IF seq = <<>> THEN ""
    ELSE IF Len(seq) = 1 THEN seq[1]
    ELSE seq[1] \o sep \o Join(Tail(seq), sep)

\* str.isupper(): some cased character and no lower-case one
IsUpper(s) ==
    /\ \E i \in 1..Len(s) : IsCasedChar(Char(s, i))
    /\ \A i \in 1..Len(s) : ~IsLowerChar(Char(s, i))

\* str.istitle(): upper case only after uncased, lower case only after cased
IsTitle(s) ==
    /\ \E i \in 1..Len(s) : IsCasedChar(Char(s, i))
    /\ \A i \in 1..Len(s) :
          /\ IsUpperChar(Char(s, i)) => (i = 1 \/ ~IsCasedChar(Char(s, i - 1)))
          /\ IsLowerChar(Char(s, i)) => (i > 1 /\ IsCasedChar(Char(s, i - 1)))

RECURSIVE StrLess(_, _)
\* a < b on str: lexicographic by code point
StrLess(a, b) ==
    IF b = "" THEN FALSE
    ELSE IF a = "" THEN TRUE
    ELSE IF Char(a, 1) = Char(b, 1) THEN StrLess(Rest(a, 2), Rest(b, 2))
    ELSE Ord(Char(a, 1)) < Ord(Char(b, 1))

RECURSIVE SortedSeq(_)
\* sorted(list(S)) for a set S of strings
SortedSeq(S) ==
    IF S = {} THEN <<>>
    ELSE LET m == CHOOSE x \in S : \A y \in S \ {x} : StrLess(x, y)
         IN  <<m>> \o SortedSeq(S \ {m})

SeqToSet(seq) == {seq[i] : i \in 1..Len(seq)}

(***************************************************************************)
(* Values of the details dictionary.  Python values are dynamically typed: *)
(* a section holds a str, and Skills holds a str (the sentinel) or a list. *)
(***************************************************************************)
Str(v) == [kind |-> "str", val |-> v, items |-> <<>>]

List(xs) == [kind |-> "list", val |-> "", items |-> xs]

NotFound == Str("Not found")

\* None, the initial current_section_name
None == "None"

ContactKeys == <<"Name", "Email", "Phone">>

\* the section keys of details, in the dictionary's insertion order
SectionKeys ==
    <<"Profile", "Professional Experience", "Education", "Skills", "Projects",
      "Position of Responsibility">>

AllKeys == SeqToSet(ContactKeys) \cup SeqToSet(SectionKeys)

InitialDetails == [k \in AllKeys |-> NotFound]

\* the keyword table, in declaration order: <<keyword, section key>>
section_keywords ==
    << <<"PROFILE", "Profile">>,
       <<"PROFESSIONAL EXPERIENCE", "Professional Experience">>,
       <<"EDUCATION", "Education">>,
       <<"SKILLS", "Skills">>,
       <<"PROJECTS", "Projects">>,
       <<"POSITION OF RESPONSIBILITY", "Position of Responsibility">> >>

\* a header line must be shorter than its keyword plus this many characters
HeaderSlack == 15

\* how many leading lines are searched for a name
NameLines == 5

\* the most words the first line may have to be taken as the name
NameMaxWords == 4

(***************************************************************************)
(* Contact extraction: re.findall(...)[0], the leftmost match, each        *)
(* quantifier greedy.                                                      *)
(***************************************************************************)
IsEmailChar(c) == IsWordChar(c) \/ c = "." \/ c = "-"

IsPhoneMid(c) == IsDigitChar(c) \/ c = "-" \/ IsSpaceChar(c)

MinOf(S) == CHOOSE i \in S : \A j \in S : i <= j

MaxOf(S) == CHOOSE i \in S : \A j \in S : i >= j

\* re.findall(r'[\w\.-]+@[\w\.-]+', text)[:1].  "@" is outside the class, so
\* a match is a maximal run up to an "@" and the maximal run after it.
FindEmail(txt) ==
    LET n  == Len(txt)
        at == {q \in 2..(n - 1) : /\ Char(txt, q) = "@"
                                  /\ IsEmailChar(Char(txt, q - 1))
                                  /\ IsEmailChar(Char(txt, q + 1))}
    IN  IF at = {} THEN <<>>
        ELSE LET q == MinOf(at)
                 s == MinOf({i \in 1..(q - 1) :
                               \A j \in i..(q - 1) : IsEmailChar(Char(txt, j))})
                 e == MaxOf({i \in (q + 1)..n :
                               \A j \in (q + 1)..i : IsEmailChar(Char(txt, j))})
             IN  <<SubSeq(txt, s, e)>>

\* the ends e of the matches of \+?\d[\d\-\s]{8,}\d that start at s
PhoneEnds(txt, s) ==
    LET b == IF Char(txt, s) = "+" THEN s + 1 ELSE s
    IN  IF b > Len(txt) \/ ~IsDigitChar(Char(txt, b)) THEN {}
        ELSE {e \in (b + 9)..Len(txt) :
                /\ IsDigitChar(Char(txt, e))
                /\ \A j \in (b + 1)..(e - 1) : IsPhoneMid(Char(txt, j))}

\* re.findall(r'\+?\d[\d\-\s]{8,}\d', text)[:1]
FindPhone(txt) ==
    LET starts == {s \in 1..Len(txt) :
                     /\ Char(txt, s) = "+" \/ IsDigitChar(Char(txt, s))
                     /\ PhoneEnds(txt, s) # {}}
    IN  IF starts = {} THEN <<>>
        ELSE LET s == MinOf(starts)
             IN  <<SubSeq(txt, s, MaxOf(PhoneEnds(txt, s)))>>

RECURSIVE StripNonEmpty(_)
\* [line.strip() for line in lines if line.strip()]
StripNonEmpty(lines) ==
    IF lines = <<>> THEN <<>>
    ELSE (IF Strip(lines[1]) = "" THEN <<>> ELSE <<Strip(lines[1])>>)
         \o StripNonEmpty(Tail(lines))

CleanedLines(txt) == StripNonEmpty(SplitLines(txt))

(***************************************************************************)
(* Name extraction.  The recognizer nlp is a pretrained model outside the  *)
(* repository: a fixed function of the line.  It is represented by the     *)
(* names below, reported as PERSON entities wherever a line contains them. *)
(***************************************************************************)
KnownPersons == <<"Jane Doe", "Madonna">>

\* [ent.text for ent in nlp(line).ents if ent.label_ == "PERSON"]
PersonEntities(line) ==
    SelectSeq(KnownPersons, LAMBDA p : Contains(p, line))

\* what one iteration of the name loop appends to name_candidates
LineCandidates(cleaned, i) ==
    SelectSeq(PersonEntities(cleaned[i]), LAMBDA e : Len(Words(e)) >= 2)
    \o (IF /\ i = 1
           /\ IsUpper(cleaned[1]) \/ IsTitle(cleaned[1])
           /\ Len(Words(cleaned[1])) <= NameMaxWords
        THEN <<cleaned[1]>> ELSE <<>>)

RECURSIVE CandidatesFrom(_, _)
CandidatesFrom(cleaned, i) ==
    IF i > Len(cleaned) \/ i > NameLines THEN <<>>
    ELSE LineCandidates(cleaned, i) \o CandidatesFrom(cleaned, i + 1)

\* name_candidates after the loop over the first lines
NameCandidates(cleaned) == CandidatesFrom(cleaned, 1)

(***************************************************************************)
(* Section routing.                                                        *)
(***************************************************************************)
RECURSIVE ScanKeywords(_, _)
\* the for/break loop over section_keywords from entry k on: the index of the
\* first keyword the line matches, 0 when the loop ends without a match
ScanKeywords(line_upper, k) ==
    IF k > Len(section_keywords) THEN 0
    ELSE IF /\ Contains(section_keywords[k][1], line_upper)
            /\ Len(line_upper) < Len(section_keywords[k][1]) + HeaderSlack
         THEN k
         ELSE ScanKeywords(line_upper, k + 1)

\* MatchKeyword without the break: the last matching keyword wins
MatchKeywordLast(line) ==
    LET K == {k \in 1..Len(section_keywords) :
                /\ Contains(section_keywords[k][1], Upper(line))
                /\ Len(Upper(line)) < Len(section_keywords[k][1]) + HeaderSlack}
    IN  IF K = {} THEN 0 ELSE CHOOSE k \in K : \A j \in K : j <= k

MatchKeyword(line) == ScanKeywords(Upper(line), 1)

RECURSIVE SplitEither(_)
\* the pieces of s between separators, a separator being ";" or ","
SplitEither(s) ==
    LET at == {i \in 1..Len(s) : Char(s, i) \in {";", ","}}
    IN  IF at = {} THEN <<s>>
        ELSE LET p == CHOOSE i \in at : \A j \in at : i <= j
             IN  <<SubSeq(s, 1, p - 1)>> \o SplitEither(Rest(s, p + 1))

\* SkillItems splitting on commas and semicolons alike
SkillItemsBothSeparators(line) ==
    LET cleaned_skill_line == Strip(Remove(Remove(line, "*"), "-"))
    IN  IF cleaned_skill_line = "" THEN <<>>
        ELSE StripNonEmpty(SplitEither(cleaned_skill_line))

\* what a line routed to Skills adds to the Skills list
SkillItems(line) ==
    LET cleaned_skill_line == Strip(Remove(Remove(line, "*"), "-"))
    IN  IF cleaned_skill_line = "" THEN <<>>
        ELSE IF Contains(";", cleaned_skill_line)
             THEN StripNonEmpty(Split(cleaned_skill_line, ";"))
        ELSE IF Contains(",", cleaned_skill_line)
             THEN StripNonEmpty(Split(cleaned_skill_line, ","))
        ELSE <<cleaned_skill_line>>

\* what a non-header line adds to the list of the section it is routed to
ContentItems(section, line) ==
    IF section = "Skills" THEN SkillItems(line) ELSE <<line>>

\* RouteLine with found_new_section ignored: a header line opens its section
\* and is then added to it
RouteLineHeaderAsContent(st, line) ==
    LET k    == MatchKeyword(line)
        name == IF k # 0 THEN section_keywords[k][2] ELSE st.name
    IN  IF name # None
        THEN [name |-> name,
              data |-> [st.data EXCEPT ![name] = @ \o ContentItems(name, line)]]
        ELSE st

\* RouteLine assigning the line to the section instead of appending it
RouteLineReplacing(st, line) ==
    LET k == MatchKeyword(line)
    IN  IF k # 0
        THEN [name |-> section_keywords[k][2], data |-> st.data]
        ELSE IF st.name # None
        THEN [name |-> st.name,
              data |-> [st.data EXCEPT ![st.name] = ContentItems(st.name, line)]]
        ELSE st

\* one iteration of the routing loop on the pair (current_section_name,
\* current_section_data)
RouteLine(st, line) ==
    LET k == MatchKeyword(line)
    IN  IF k # 0
        THEN [name |-> section_keywords[k][2], data |-> st.data]
        ELSE IF st.name # None
        THEN [name |-> st.name,
              data |-> [st.data EXCEPT
                          ![st.name] = @ \o ContentItems(st.name, line)]]
        ELSE st

EmptySectionData == [k \in SeqToSet(SectionKeys) |-> <<>>]

RECURSIVE RouteAll(_, _, _)
RouteAll(st, cleaned, i) ==
    IF i > Len(cleaned) THEN st
    ELSE RouteAll(RouteLine(st, cleaned[i]), cleaned, i + 1)

\* FinalValue without the `if value_list' test
FinalValueUnguarded(old, key, value_list) ==
    IF key = "Skills" THEN List(SortedSeq(SeqToSet(value_list)))
    ELSE Str(Join(value_list, "\n"))

\* FinalValue with the collected Skills stored as they are
FinalValueRawSkills(old, key, value_list) ==
    IF value_list = <<>> THEN old
    ELSE IF key = "Skills" THEN List(value_list)
    ELSE Str(Join(value_list, "\n"))

\* one iteration of the finalisation loop: the value of details[key], which
\* was old, given the collected list value_list
FinalValue(old, key, value_list) ==
    IF value_list = <<>> THEN old
    ELSE IF key = "Skills" THEN List(SortedSeq(SeqToSet(value_list)))
    ELSE Str(Join(value_list, "\n"))

\* the finalisation loop over current_section_data
Finalize(d, data) ==
    [k \in AllKeys |->
        IF k \in DOMAIN data THEN FinalValue(d[k], k, data[k]) ELSE d[k]]

WithContact(d, txt) ==
    [d EXCEPT !["Email"] = IF FindEmail(txt) # <<>>
                           THEN Str(FindEmail(txt)[1]) ELSE @,
              !["Phone"] = IF FindPhone(txt) # <<>>
                           THEN Str(FindPhone(txt)[1]) ELSE @]

WithName(d, cleaned) ==
    [d EXCEPT !["Name"] = IF NameCandidates(cleaned) # <<>>
                          THEN Str(NameCandidates(cleaned)[1]) ELSE @]

\* extract_details(text), start to end
extract_details(t) ==
    LET cleaned == CleanedLines(t)
        d       == WithName(WithContact(InitialDetails, t), cleaned)
        st      == RouteAll([name |-> None, data |-> EmptySectionData], cleaned, 1)
    IN  Finalize(d, st.data)


(***************************************************************************)
(* calculate_resume_score, in tenths of a point.  Every partial sum is a   *)
(* multiple of 0.5, which a float holds exactly, so round(score, 1)        *)
(* changes nothing.                                                        *)
(***************************************************************************)
MAX_SECTIONS_SCORE == 3

MAX_EXPERIENCE_SCORE == 3

MAX_SKILLS_SCORE == 2

MAX_PROJECTS_SCORE == 2

\* tenths in a point
Tenths == 10

sections_to_check == SectionKeys

\* the condition of the `if' that counts a section:
\*   v != "Not found" and (v is a list and v)  or  (v is a str and v.strip() != "")
\* `and' binds tighter than `or'
SectionCounted(v) ==
    \/ (v # NotFound /\ v.kind = "list" /\ v.items # <<>>)
    \/ (v.kind = "str" /\ Strip(v.val) # "")

sections_found(d) ==
    Cardinality({i \in 1..Len(sections_to_check) :
                    SectionCounted(d[sections_to_check[i]])})

\* (sections_found / len(sections_to_check)) * MAX_SECTIONS_SCORE
SectionsScore(d) ==
    (sections_found(d) * MAX_SECTIONS_SCORE * Tenths) \div Len(sections_to_check)

\* len(value.split('\n')) if value != "Not found" else 0
LineCount(v) == IF v # NotFound THEN Len(Split(v.val, "\n")) ELSE 0

\* ExperienceScore with `if' in place of `elif': the tiers add up
ExperienceScoreCumulative(d) ==
    LET exp_lines == LineCount(d["Professional Experience"])
    IN    (IF exp_lines >= 10 THEN MAX_EXPERIENCE_SCORE * Tenths ELSE 0)
        + (IF exp_lines >= 6 THEN 2 * Tenths ELSE 0)
        + (IF exp_lines >= 3 THEN 1 * Tenths ELSE 0)

ExperienceScore(d) ==
    LET exp_lines == LineCount(d["Professional Experience"])
    IN  IF exp_lines >= 10 THEN MAX_EXPERIENCE_SCORE * Tenths
        ELSE IF exp_lines >= 6 THEN 2 * Tenths
        ELSE IF exp_lines >= 3 THEN 1 * Tenths
        ELSE 0

\* len(x) of a str or a list
PyLen(v) == IF v.kind = "list" THEN Len(v.items) ELSE Len(v.val)

SkillsCount(d) == IF d["Skills"] # NotFound THEN PyLen(d["Skills"]) ELSE 0

SkillsScore(d) ==
    IF SkillsCount(d) >= 11 THEN MAX_SKILLS_SCORE * Tenths
    ELSE IF SkillsCount(d) >= 6 THEN 1 * Tenths
    ELSE 0

ProjectsScore(d) ==
    LET projects_lines == LineCount(d["Projects"])
    IN  IF projects_lines >= 3 THEN MAX_PROJECTS_SCORE * Tenths
        ELSE IF projects_lines >= 1 THEN 1 * Tenths
        ELSE 0

calculate_resume_score(d) ==
    SectionsScore(d) + ExperienceScore(d) + SkillsScore(d) + ProjectsScore(d)

(***************************************************************************)
(* compare_resumes                                                         *)
(***************************************************************************)
\* the keys of comparison_categories_detailed, in order
ComparisonCategories ==
    <<"Skills", "Professional Experience", "Projects", "Position of Responsibility">>

\* comparison_categories_detailed[category](d)
GetItems(category, d) ==
    IF category = "Skills" THEN d["Skills"]
    ELSE List(StripNonEmpty(Split(d[category].val, "\n")))

Max(a, b) == IF a >= b THEN a ELSE b

Blanks(n) == [i \in 1..n |-> ""]

\* one iteration of the loop over the categories: items + [''] * k raises
\* TypeError when items is a str
CompareRow(category, d1, d2) ==
    LET items1    == GetItems(category, d1)
        items2    == GetItems(category, d2)
        max_lines == Max(PyLen(items1), PyLen(items2))
    IN  IF items1.kind # "list" \/ items2.kind # "list"
        THEN [category |-> category, raised |-> "TypeError",
              padded_items1 |-> <<>>, padded_items2 |-> <<>>]
        ELSE [category |-> category, raised |-> "",
              padded_items1 |-> items1.items \o Blanks(max_lines - Len(items1.items)),
              padded_items2 |-> items2.items \o Blanks(max_lines - Len(items2.items))]

RECURSIVE CompareRows(_, _, _)
\* the rows of the loop from category i on, up to the first that raises
CompareRows(i, d1, d2) ==
    IF i > Len(ComparisonCategories) THEN <<>>
    ELSE LET row == CompareRow(ComparisonCategories[i], d1, d2)
         IN  IF row.raised # "" THEN <<row>>
             ELSE <<row>> \o CompareRows(i + 1, d1, d2)

\* the closing message
Verdict(ats_score1, ats_score2) ==
    IF ats_score1 > ats_score2 THEN "Resume 1 stronger"
    ELSE IF ats_score2 > ats_score1 THEN "Resume 2 stronger"
    ELSE "similar strength"

\* compare_resumes(details1, details2): the rows shown, the exception that
\* ended the call if any, else the two scores and the closing message
compare_resumes(d1, d2) ==
    LET rows == CompareRows(1, d1, d2)
        last == rows[Len(rows)]
    IN  IF last.raised # ""
        THEN [rows |-> rows, raised |-> last.raised, scores |-> <<>>, verdict |-> ""]
        ELSE [rows |-> rows, raised |-> "",
              scores |-> <<calculate_resume_score(d1), calculate_resume_score(d2)>>,
              verdict |-> Verdict(calculate_resume_score(d1),
                                  calculate_resume_score(d2))]

NoComparison == [rows |-> <<>>, raised |-> "", scores |-> <<>>, verdict |-> ""]

(***************************************************************************)
(* The state: the uploaded texts, the locals of the running extract_details*)
(* call, and what the application holds afterwards.                        *)
(***************************************************************************)
VARIABLES
    text,                  \* the text of the (first) uploaded resume
    text2,                 \* the text of the second resume (Compare Resumes)
    pc,                    \* where the run is
    cleaned_lines,         \* extract_details: cleaned_lines
    idx,                   \* extract_details: position of the routing loop
    current_section_name,  \* extract_details: current_section_name
    current_section_data,  \* extract_details: current_section_data
    details,               \* details (details1 in Compare Resumes)
    details2,              \* details2
    ats_score,             \* <<>> until calculate_resume_score returned
    comparison             \* the outcome of compare_resumes

vars ==
    <<text, text2, pc, cleaned_lines, idx, current_section_name,
      current_section_data, details, details2, ats_score, comparison>>

(***************************************************************************)
(* Inputs.                                                                 *)
(***************************************************************************)
\* the most raw lines of a text, per family of inputs
MaxLines == 4

MaxHeaderLines == 3

MaxSkillLines == 3

\* every text of at most n raw lines drawn from pool
TextsOf(pool, n) ==
    {Join(ls, "\n") : ls \in UNION {[1..k -> pool] : k \in 0..n}}

RoutePool ==
    {"EDUCATION", " projects ", "B.Tech CS 2020",
     "Jane Doe jane@x.com +1-555-123-4567", ""}

HeaderPool ==
    {"Skills and tools use", "Skills and tools used", "Projects & Skills",
     "PROFILE PROFESSIONAL EXPERIENCE", "Education", "B.Tech CS 2020"}

SkillPool ==
    {"SKILLS", "Python, SQL; Go", "SQL ,Go,  SQL", "* Scikit-learn tools", ";",
     "EDUCATION", "Skills: Python, SQL and Go"}

\* resumes built section by section, for the scorer
MaxExpLines == 10

MaxSkills == 11

MaxProjLines == 3

SkillName(i) == "S" \o Char(LowerLetters, i)

Block(header, lines) == <<header>> \o lines

Repeat(line, n) == [i \in 1..n |-> line]

\* a resume with e lines of experience, s skills on one line, p project lines
\* and, when others, a line in each of the other three sections
BuiltText(e, s, p, others) ==
    Join(   (IF e > 0 THEN Block("PROFESSIONAL EXPERIENCE", Repeat("Built a parser", e))
             ELSE <<>>)
         \o (IF s > 0 THEN Block("SKILLS", <<Join([i \in 1..s |-> SkillName(i)], ", ")>>)
             ELSE <<>>)
         \o (IF p > 0 THEN Block("PROJECTS", Repeat("Resume parser", p)) ELSE <<>>)
         \o (IF others
             THEN <<"PROFILE", "Engineer", "EDUCATION", "B.Tech CS 2020",
                    "POSITION OF RESPONSIBILITY", "Club lead">>
             ELSE <<>>),
         "\n")

ScoreTexts ==
    {BuiltText(e, s, p, o) :
        e \in 0..MaxExpLines, s \in 0..MaxSkills, p \in 0..MaxProjLines, o \in BOOLEAN}

\* the resumes compared
MaxCmpSkills == 8

MaxCmpExpLines == 2

CmpTexts ==
    {BuiltText(e, s, 0, FALSE) : e \in 0..MaxCmpExpLines, s \in 0..MaxCmpSkills}

(***************************************************************************)
(* Initial states: a resume was uploaded and extract_details entered, its  *)
(* details dictionary initialised.                                         *)
(***************************************************************************)
InitWith(t, t2, at) ==
    /\ text = t
    /\ text2 = t2
    /\ pc = at
    /\ cleaned_lines = <<>>
    /\ idx = 1
    /\ current_section_name = None
    /\ current_section_data = EmptySectionData
    /\ details = InitialDetails
    /\ details2 = InitialDetails
    /\ ats_score = <<>>
    /\ comparison = NoComparison

Init == \E t \in TextsOf(RoutePool, MaxLines) : InitWith(t, "", "contact")

InitHeader == \E t \in TextsOf(HeaderPool, MaxHeaderLines) : InitWith(t, "", "contact")

InitSkills == \E t \in TextsOf(SkillPool, MaxSkillLines) : InitWith(t, "", "contact")

InitScore == \E t \in ScoreTexts : InitWith(t, "", "upload")

InitCmp == \E t \in CmpTexts, t2 \in CmpTexts : InitWith(t, t2, "upload1")

(***************************************************************************)
(* extract_details, step by step.                                          *)
(***************************************************************************)
\* email and phone by regular expression, then the cleaned lines
ExtractContact ==
    /\ pc = "contact"
    /\ details' = WithContact(details, text)
    /\ cleaned_lines' = CleanedLines(text)
    /\ pc' = "name"
    /\ UNCHANGED <<text, text2, idx, current_section_name, current_section_data,
                   details2, ats_score, comparison>>

\* the name from the first lines
ExtractName ==
    /\ pc = "name"
    /\ details' = WithName(details, cleaned_lines)
    /\ pc' = "route"
    /\ UNCHANGED <<text, text2, cleaned_lines, idx, current_section_name,
                   current_section_data, details2, ats_score, comparison>>

\* one iteration of `for line in cleaned_lines'
RouteStep ==
    /\ pc = "route"
    /\ idx <= Len(cleaned_lines)
    /\ LET st == RouteLine([name |-> current_section_name,
                            data |-> current_section_data], cleaned_lines[idx])
       IN  /\ current_section_name' = st.name
           /\ current_section_data' = st.data
    /\ idx' = idx + 1
    /\ UNCHANGED <<text, text2, pc, cleaned_lines, details, details2, ats_score,
                   comparison>>

\* the loop is over: finalise the dictionary and return it
FinalizeStep ==
    /\ pc = "route"
    /\ idx > Len(cleaned_lines)
    /\ details' = Finalize(details, current_section_data)
    /\ pc' = "score"
    /\ UNCHANGED <<text, text2, cleaned_lines, idx, current_section_name,
                   current_section_data, details2, ats_score, comparison>>

\* Parse Single Resume: the score of the extracted details
Score ==
    /\ pc = "score"
    /\ ats_score' = <<calculate_resume_score(details)>>
    /\ pc' = "done"
    /\ UNCHANGED <<text, text2, cleaned_lines, idx, current_section_name,
                   current_section_data, details, details2, comparison>>

Next == ExtractContact \/ ExtractName \/ RouteStep \/ FinalizeStep \/ Score

Spec == Init /\ [][Next]_vars

SpecHeader == InitHeader /\ [][Next]_vars

SpecSkills == InitSkills /\ [][Next]_vars

(***************************************************************************)
(* Parse Single Resume, extract_details as one step.                       *)
(***************************************************************************)
Parse ==
    /\ pc = "upload"
    /\ details' = extract_details(text)
    /\ pc' = "score"
    /\ UNCHANGED <<text, text2, cleaned_lines, idx, current_section_name,
                   current_section_data, details2, ats_score, comparison>>

NextScore == Parse \/ Score

SpecScore == InitScore /\ [][NextScore]_vars

(***************************************************************************)
(* Compare Resumes.                                                        *)
(***************************************************************************)
ParseFirst ==
    /\ pc = "upload1"
    /\ details' = extract_details(text)
    /\ pc' = "upload2"
    /\ UNCHANGED <<text, text2, cleaned_lines, idx, current_section_name,
                   current_section_data, details2, ats_score, comparison>>

ParseSecond ==
    /\ pc = "upload2"
    /\ details2' = extract_details(text2)
    /\ pc' = "compare"
    /\ UNCHANGED <<text, text2, cleaned_lines, idx, current_section_name,
                   current_section_data, details, ats_score, comparison>>

\* the Compare Resumes button
Compare ==
    /\ pc = "compare"
    /\ comparison' = compare_resumes(details, details2)
    /\ pc' = "compared"
    /\ UNCHANGED <<text, text2, cleaned_lines, idx, current_section_name,
                   current_section_data, details, details2, ats_score>>

NextCmp == ParseFirst \/ ParseSecond \/ Compare

SpecCmp == InitCmp /\ [][NextCmp]_vars

\* the stepwise run returns what extract_details returns
StepwiseAgrees == pc \in {"score", "done"} => details = extract_details(text)


(***************************************************************************)
(* The properties, stated from the resume text and the returned record.    *)
(***************************************************************************)
Returned == pc \in {"score", "done"}

\* the catalog entries a line matches: the keyword is a substring of the
\* upper-cased line and the line is shorter than len(keyword) + 15
MatchSet(line) ==
    LET upper == Upper(line)
    IN  {k \in 1..Len(section_keywords) :
           /\ Contains(section_keywords[k][1], upper)
           /\ Len(line) < Len(section_keywords[k][1]) + 15}

IsHeaderLine(line) == MatchSet(line) # {}

\* the section of the first matching entry, in table-declaration order
HeaderSection(line) == section_keywords[MinOf(MatchSet(line))][2]

\* for each cleaned line, the catalog entries it matches
HeaderSets == [i \in 1..Len(cleaned_lines) |-> MatchSet(cleaned_lines[i])]

\* the section open after the first n cleaned lines, h being HeaderSets:
\* that of the most recent header line, None before the first
RECURSIVE OpenAfter(_, _)
OpenAfter(h, n) ==
    IF n = 0 THEN None
    ELSE IF h[n] # {} THEN section_keywords[MinOf(h[n])][2]
    ELSE OpenAfter(h, n - 1)

OpenSection(n) == OpenAfter(HeaderSets, n)

\* the non-header lines among the first n whose most recent header above
\* maps to section s, in their original order (h being HeaderSets)
RECURSIVE LinesRouted(_, _, _)
LinesRouted(h, s, n) ==
    IF n = 0 THEN <<>>
    ELSE LinesRouted(h, s, n - 1)
         \o (IF h[n] = {} /\ OpenAfter(h, n - 1) = s THEN <<cleaned_lines[n]>>
             ELSE <<>>)

\* the positions of the lines routed to Skills
SkillLines ==
    LET h == HeaderSets
    IN  {i \in 1..Len(cleaned_lines) : h[i] = {} /\ OpenAfter(h, i - 1) = "Skills"}

PlainSections == SeqToSet(SectionKeys) \ {"Skills"}

\* the skills of a record, as a set
SkillSet(d) == IF d["Skills"].kind = "list" THEN SeqToSet(d["Skills"].items) ELSE {}

\* C1: the returned record has all nine keys, and every section holds the
\* sentinel "Not found" or a non-empty value: never an empty string, never
\* an empty list
C1_KeysPresentValuesNonEmpty ==
    /\ DOMAIN details = AllKeys
    /\ \A k \in SeqToSet(SectionKeys) :
          \/ details[k] = NotFound
          \/ details[k].kind = "str" /\ details[k].val # ""
          \/ details[k].kind = "list" /\ details[k].items # <<>>

\* a returned record whose Skills section was opened and fed a line that
\* yields no skill, beside a section with content
C1_Witness ==
    /\ pc = "done"
    /\ cleaned_lines = <<"EDUCATION", "SKILLS", ";">>
    /\ details["Skills"] = NotFound

\* C2: a line that matches a section keyword is consumed as a header: it is
\* no content line of any section of the returned record, and every Skills
\* token was taken from a line that matches no keyword
C2_HeaderNeverContent ==
    Returned =>
        /\ \A i \in 1..Len(cleaned_lines) : \A s \in PlainSections :
              (IsHeaderLine(cleaned_lines[i]) /\ details[s] # NotFound)
                  => cleaned_lines[i] \notin SeqToSet(Split(details[s].val, "\n"))
        /\ \A tok \in SkillSet(details) :
              \E i \in 1..Len(cleaned_lines) :
                  /\ ~IsHeaderLine(cleaned_lines[i])
                  /\ tok \in SeqToSet(SkillItems(cleaned_lines[i]))

\* the header SKILLS, met inside Education, became neither a line of
\* Education nor a skill
C2_Witness ==
    /\ pc = "done"
    /\ cleaned_lines = <<"EDUCATION", "SKILLS", "SQL ,Go,  SQL">>
    /\ details["Education"] = NotFound
    /\ details["Skills"] = List(<<"Go", "SQL">>)

\* the delimiter class of the skill tokenizer as specified: whitespace, the
\* bullet, commas, semicolons
IsDelimiter(c) == IsSpaceChar(c) \/ c \in {"*", ",", ";"}

\* the maximal runs of non-delimiter characters of a line
ClassTokens(line) ==
    {SubSeq(line, x[1], x[2]) :
        x \in {y \in (1..Len(line)) \X (1..Len(line)) :
                 /\ y[1] <= y[2]
                 /\ \A j \in y[1]..y[2] : ~IsDelimiter(Char(line, j))
                 /\ y[1] = 1 \/ IsDelimiter(Char(line, y[1] - 1))
                 /\ y[2] = Len(line) \/ IsDelimiter(Char(line, y[2] + 1))}}

\* C3 as claimed: the skills are the tokens of the lines routed to Skills,
\* split on the whole delimiter class
C3_SplitOnDelimiterClass ==
    Returned => SkillSet(details) = UNION {ClassTokens(cleaned_lines[i]) : i \in SkillLines}

\* the separator the tokenizer uses on a cleaned skill line: the semicolon
\* if the line has one, else the comma if it has one, else none
SeparatorOf(c) ==
    IF \E i \in 1..Len(c) : Char(c, i) = ";" THEN ";"
    ELSE IF \E i \in 1..Len(c) : Char(c, i) = "," THEN ","
    ELSE ""

\* the pieces of a skill line: bullets and hyphens deleted, the line
\* stripped, cut at every occurrence of its separator, each piece stripped,
\* the empty ones dropped
Pieces(line) ==
    LET c   == Strip(Remove(Remove(line, "-"), "*"))
        sep == SeparatorOf(c)
        cut == {x \in (1..(Len(c) + 1)) \X (0..Len(c)) :
                  /\ x[2] >= x[1] - 1
                  /\ \A j \in x[1]..x[2] : Char(c, j) # sep
                  /\ x[1] = 1 \/ Char(c, x[1] - 1) = sep
                  /\ x[2] = Len(c) \/ Char(c, x[2] + 1) = sep}
    IN  {Strip(SubSeq(c, x[1], x[2])) : x \in cut} \ {""}

\* C3, amended: a line routed to Skills has its bullets and hyphens deleted
\* and is stripped, then is split on semicolons if it has one, otherwise on
\* commas if it has one, otherwise kept whole (whitespace does not split);
\* the non-empty stripped pieces are the skills.  "Python, SQL; Go" yields
\* the two skills "Python, SQL" and "Go"
C3_SplitOnOneSeparator ==
    /\ Returned => SkillSet(details) = UNION {Pieces(cleaned_lines[i]) : i \in SkillLines}
    /\ (Returned /\ cleaned_lines = <<"SKILLS", "Python, SQL; Go">>)
          => details["Skills"] = List(<<"Go", "Python, SQL">>)

C3_Witness ==
    /\ pc = "done"
    /\ cleaned_lines = <<"SKILLS", "Python, SQL; Go", "* Scikit-learn tools">>
    /\ details["Skills"] = List(<<"Go", "Python, SQL", "Scikitlearn tools">>)

\* C4: a Skills list is sorted with no two equal elements, and holds every
\* token collected from the Skills lines exactly once
C4_SkillsSortedNoDuplicates ==
    (Returned /\ details["Skills"] # NotFound) =>
        LET items == details["Skills"].items
        IN  /\ details["Skills"].kind = "list"
            /\ \A i \in 1..(Len(items) - 1) : StrLess(items[i], items[i + 1])
            /\ SeqToSet(items) = SeqToSet(current_section_data["Skills"])

\* a token collected three times, with different spacing around the comma
C4_Witness ==
    /\ pc = "done"
    /\ cleaned_lines = <<"SKILLS", "SQL ,Go,  SQL", "Python, SQL; Go">>
    /\ Len(current_section_data["Skills"]) = 5
    /\ details["Skills"] = List(<<"Go", "Python, SQL", "SQL">>)

\* the tracked sections present in a record: neither the sentinel nor empty
PresentSections(d) ==
    {k \in SeqToSet(SectionKeys) :
        /\ d[k] # NotFound
        /\ d[k].kind = "str" => Strip(d[k].val) # ""
        /\ d[k].kind = "list" => d[k].items # <<>>}

\* C5: the completeness component is k/6 of its maximum of 3 points for a
\* record with k of the 6 tracked sections present; a section holding the
\* sentinel earns nothing
C5_CompletenessEvenShare ==
    pc = "done" =>
        SectionsScore(details) * 6 = Cardinality(PresentSections(details)) * 3 * 10

\* C6: compare_resumes raises nothing, pads both item lists of every
\* category to the longer of the two, and takes no item from a section
\* that holds the sentinel
C6_CompareCompletesAndPads ==
    pc = "compared" =>
        /\ comparison.raised = ""
        /\ Len(comparison.rows) = Len(ComparisonCategories)
        /\ \A i \in 1..Len(comparison.rows) :
              LET row == comparison.rows[i]
                  n1  == Len(SelectSeq(row.padded_items1, LAMBDA x : x # ""))
                  n2  == Len(SelectSeq(row.padded_items2, LAMBDA x : x # ""))
              IN  /\ Len(row.padded_items1) = Max(n1, n2)
                  /\ Len(row.padded_items2) = Max(n1, n2)
                  /\ details[row.category] = NotFound => n1 = 0
                  /\ details2[row.category] = NotFound => n2 = 0

\* the two records differ in Skills only
SameButSkills(d1, d2) == \A k \in AllKeys \ {"Skills"} : d1[k] = d2[k]

\* C7: compare_resumes declares the resume whose calculate_resume_score is
\* strictly higher the stronger one and declares similar strength when the
\* two scores are equal; of two records that differ only in that the first
\* has 8 skills and the second 3, the first scores at least as much and is
\* the one declared stronger
C7_VerdictFollowsScores ==
    pc = "compared" =>
        LET s1 == calculate_resume_score(details)
            s2 == calculate_resume_score(details2)
        IN  /\ comparison.verdict = "Resume 1 stronger" <=> s1 > s2
            /\ comparison.verdict = "Resume 2 stronger" <=> s2 > s1
            /\ comparison.verdict = "similar strength" <=> s1 = s2
            /\ (/\ SameButSkills(details, details2)
                /\ Cardinality(SkillSet(details)) = 8
                /\ Cardinality(SkillSet(details2)) = 3)
                   => s1 >= s2 /\ comparison.verdict = "Resume 1 stronger"

\* whenever compare_resumes gets as far as its closing message, the message
\* follows the two scores
VerdictWhenReached ==
    (pc = "compared" /\ comparison.raised = "") =>
        LET s1 == calculate_resume_score(details)
            s2 == calculate_resume_score(details2)
        IN  /\ comparison.scores = <<s1, s2>>
            /\ comparison.verdict = "Resume 1 stronger" <=> s1 > s2
            /\ comparison.verdict = "Resume 2 stronger" <=> s2 > s1
            /\ comparison.verdict = "similar strength" <=> s1 = s2

\* 8 skills against 3, all else equal: the first resume is declared stronger
EightAgainstThree ==
    (/\ pc = "compared"
     /\ SameButSkills(details, details2)
     /\ Cardinality(SkillSet(details)) = 8
     /\ Cardinality(SkillSet(details2)) = 3)
        => comparison.verdict = "Resume 1 stronger"

EightAgainstThreeReached ==
    /\ pc = "compared"
    /\ SameButSkills(details, details2)
    /\ Cardinality(SkillSet(details)) = 8
    /\ Cardinality(SkillSet(details2)) = 3

\* C8: the score lies between 0 and 10 points, and its four components lie
\* between 0 and their maxima 3, 3, 2 and 2
C8_ScoreInRange ==
    pc = "done" =>
        /\ ats_score[1] \in 0..(10 * 10)
        /\ SectionsScore(details) \in 0..(3 * 10)
        /\ ExperienceScore(details) \in 0..(3 * 10)
        /\ SkillsScore(details) \in 0..(2 * 10)
        /\ ProjectsScore(details) \in 0..(2 * 10)
        /\ ats_score[1] = SectionsScore(details) + ExperienceScore(details)
                          + SkillsScore(details) + ProjectsScore(details)

\* every component at its maximum
C8_Witness ==
    /\ pc = "done"
    /\ ats_score = <<100>>
    /\ ExperienceScore(details) = 30
    /\ SkillsScore(details) = 20

\* C9: every non-header line goes to the section of the most recent header
\* above it and nowhere else, lines before the first header are dropped;
\* a non-Skills section of the returned record is the newline-join of its
\* lines in order, the sentinel when it has none; with no header line all
\* six sections are the sentinel, and Email, Phone and Name are what the
\* contact and name extraction found
C9_RoutedToMostRecentHeader ==
    /\ pc = "route" =>
          LET h == HeaderSets
          IN  /\ current_section_name = OpenAfter(h, idx - 1)
              /\ \A s \in PlainSections :
                    current_section_data[s] = LinesRouted(h, s, idx - 1)
    /\ Returned =>
          LET h == HeaderSets
              n == Len(cleaned_lines)
          IN  /\ \A s \in PlainSections :
                    details[s] = IF LinesRouted(h, s, n) = <<>> THEN NotFound
                                 ELSE Str(Join(LinesRouted(h, s, n), "\n"))
              /\ (\A i \in 1..n : h[i] = {})
                    => \A k \in SeqToSet(SectionKeys) : details[k] = NotFound
    /\ Returned =>
          LET email == FindEmail(text)
              phone == FindPhone(text)
              names == NameCandidates(cleaned_lines)
          IN  /\ details["Email"] = (IF email = <<>> THEN NotFound ELSE Str(email[1]))
              /\ details["Phone"] = (IF phone = <<>> THEN NotFound ELSE Str(phone[1]))
              /\ details["Name"] = (IF names = <<>> THEN NotFound ELSE Str(names[1]))

\* a section accumulated across two headers of its own
C9_Witness ==
    /\ pc = "done"
    /\ cleaned_lines = <<"EDUCATION", "B.Tech CS 2020", "EDUCATION",
                         "Jane Doe jane@x.com +1-555-123-4567">>
    /\ details["Education"] = Str("B.Tech CS 2020\nJane Doe jane@x.com +1-555-123-4567")

\* no header line: every section the sentinel, the contact fields found
C9_WitnessNoHeader ==
    /\ pc = "done"
    /\ cleaned_lines = <<"Jane Doe jane@x.com +1-555-123-4567", "B.Tech CS 2020">>
    /\ details["Email"] = Str("jane@x.com")
    /\ details["Phone"] = Str("+1-555-123-4567")
    /\ details["Name"] = Str("Jane Doe")
    /\ \A k \in SeqToSet(SectionKeys) : details[k] = NotFound

\* the line holds some keyword of the catalog
HoldsKeyword(line) ==
    \E k \in 1..Len(section_keywords) : Contains(section_keywords[k][1], Upper(line))

\* C10: a line switches the current section exactly when it matches some
\* keyword (substring of the upper-cased line, line shorter than the keyword
\* plus 15); the section is then that of the first matching keyword in
\* table order; a line that holds a keyword but is too long for each one it
\* holds leaves the current section as it was and is routed as content
C10_FirstMatchingKeywordWins ==
    (pc = "route" /\ idx > 1) =>
        LET line   == cleaned_lines[idx - 1]
            before == OpenSection(idx - 2)
        IN  /\ IsHeaderLine(line) => current_section_name = HeaderSection(line)
            /\ ~IsHeaderLine(line) => current_section_name = before
            /\ (HoldsKeyword(line) /\ ~IsHeaderLine(line) /\ before # None) =>
                  LET items == ContentItems(before, line)
                      data  == current_section_data[before]
                  IN  /\ items # <<>>
                      /\ Len(data) >= Len(items)
                      /\ SubSeq(data, Len(data) - Len(items) + 1, Len(data)) = items

\* "Projects & Skills" matched SKILLS and PROJECTS and opened Skills; the
\* 21-character "Skills and tools used" stayed content of Skills
C10_Witness ==
    /\ pc = "route"
    /\ idx = 3
    /\ cleaned_lines[1] = "Projects & Skills"
    /\ cleaned_lines[2] = "Skills and tools used"
    /\ current_section_name = "Skills"
    /\ current_section_data["Skills"] = <<"Skills and tools used">>

\* a line holding PROFILE, too long for it, short enough for PROFESSIONAL
\* EXPERIENCE
C10_WitnessSecondKeyword ==
    /\ pc = "route"
    /\ idx = 2
    /\ cleaned_lines[1] = "PROFILE PROFESSIONAL EXPERIENCE"
    /\ current_section_name = "Professional Experience"


====
